---- MODULE Spec2Model ----
(***************************************************************************)
(* Model of srclib's grapher post-processing (src/grapher/grapher.go):     *)
(* Graph, ensureOffsetsAreByteOffsets (with its closures addOrGetFile and  *)
(* fix), sortedOutput and NormalizeData.                                   *)
(*                                                                         *)
(* A span is a record [file, start, end, repo]; repo is the DefRepo of a   *)
(* reference and "" for definitions and docs.  A file's content is the     *)
(* sequence of the encoded byte lengths of its codepoints.                 *)
(***************************************************************************)
EXTENDS Integers, Sequences, FiniteSets, TLC

VARIABLES
    uType,    \* u.Type of the source unit handed to Graph
    fs,       \* the filesystem under dir: path -> [kind, content]
    pc,       \* position of the running function
    raw,      \* the batch as the analyzer / the caller handed it over
    out,      \* the Output being processed (mutated in place)
    cur,      \* number of spans ensureOffsetsAreByteOffsets has passed to fix
    files,    \* ensureOffsetsAreByteOffsets' map files: path -> index
    log,      \* log.Printf lines: the file each warning names
    trace,    \* history: one record per call of fix
    stages,   \* history: the stages Graph ran, in order
    err,      \* the error value returned ("" is nil)
    calls,    \* history: arguments of repo.MakeURI, in call order
    sorts     \* number of sortedOutput applications (SpecSort)

vars == <<uType, fs, pc, raw, out, cur, files, log, trace, stages, err, calls, sorts>>

----------------------------------------------------------------------------
(* Bounds *)

MaxSpans == 2

MaxRunes == 2

MaxSorts == 2

----------------------------------------------------------------------------
(* Data *)

Dir == "/repo"

FileNames == {"", "a.go", "b.txt"}

UnitTypes == {"GoPackage", "PythonPackage"}

\* encoded byte lengths of a codepoint (1 = ASCII, 3 = a three-byte character)
Widths == {1, 3}

Offsets == 0..MaxRunes

Contents == UNION {[1..n -> Widths] : n \in 0..MaxRunes}

\* raw DefRepo values an analyzer emits; "" means the target is in this repository
DefRepos == {"", "git://github.com/foo/bar.git", "github.com/foo/bar", "::"}

Join(dir, name) == <<dir, name>>

Missing == [kind |-> "missing", content |-> <<>>]

NotRegular == [kind |-> "dir", content |-> <<>>]

Regular(c) == [kind |-> "regular", content |-> c]

FileSystems ==
    {[p \in {Join(Dir, "a.go"), Join(Dir, "b.txt")} |->
        IF p = Join(Dir, "a.go") THEN Regular(c) ELSE b] :
        c \in Contents, b \in {Missing, NotRegular, Regular(<<1, 3>>)}}

Span(f, s, e, r) == [file |-> f, start |-> s, end |-> e, repo |-> r]

PlainSpans == {Span(f, s, e, "") : f \in FileNames, s \in Offsets, e \in Offsets}

Batch(d, r, c) == [Defs |-> d, Refs |-> r, Docs |-> c]

\* the (Defs, Refs, Docs) lengths of the batches an analyzer run may produce
Shapes == {n \in (0..MaxSpans) \X (0..MaxSpans) \X (0..MaxSpans) : n[1] + n[2] + n[3] <= MaxSpans}

BatchesOver(D, R, C) ==
    UNION {{Batch(d, r, c) : d \in [1..n[1] -> D], r \in [1..n[2] -> R], c \in [1..n[3] -> C]} :
           n \in Shapes}

RefSpans == {Span(f, s, e, r) : f \in FileNames, s \in Offsets, e \in Offsets, r \in DefRepos}

NumSpans(o) == Len(o.Defs) + Len(o.Refs) + Len(o.Docs)

EmptyBatch == Batch(<<>>, <<>>, <<>>)

\* the i-th span in the order ensureOffsetsAreByteOffsets walks them
NthKind(o, i) ==
    IF i <= Len(o.Defs) THEN "Defs"
    ELSE IF i <= Len(o.Defs) + Len(o.Refs) THEN "Refs" ELSE "Docs"

NthIndex(o, i) ==
    IF i <= Len(o.Defs) THEN i
    ELSE IF i <= Len(o.Defs) + Len(o.Refs) THEN i - Len(o.Defs)
    ELSE i - Len(o.Defs) - Len(o.Refs)

NthSpan(o, i) == o[NthKind(o, i)][NthIndex(o, i)]

\* the batch with the i-th span's offsets overwritten (fix writes through *int)
WithOffsets(o, i, offs) ==
    [o EXCEPT ![NthKind(o, i)][NthIndex(o, i)] =
        [@ EXCEPT !.start = offs[1], !.end = offs[2]]]

----------------------------------------------------------------------------
(* The position index (github.com/sqs/fileset), as the spec describes it *)

RECURSIVE SumWidths(_, _)
SumWidths(content, k) == IF k = 0 THEN 0 ELSE SumWidths(content, k - 1) + content[k]

\* len(data)
ByteLen(content) == SumWidths(content, Len(content))

\* f.SetByteOffsetsForContent(data): codepoint ordinal -> byte offset where it begins
BuildIndex(content) == [k \in 0..Len(content) |-> SumWidths(content, k)]

\* f.ByteOffsetOfRune(k) panics when k is outside the index
InIndex(f, k) == k \in DOMAIN f

ByteOffsetOfRune(f, k) == f[k]

IsASCII(content) == \A j \in 1..Len(content) : content[j] = 1

----------------------------------------------------------------------------
(* ensureOffsetsAreByteOffsets *)

NoFiles == [p \in {} |-> <<>>]

\* os.Stat(filename) succeeds and fi.Mode().IsRegular()
StatRegular(path) == path \in DOMAIN fs /\ fs[path].kind = "regular"

\* ioutil.ReadFile: fails on a missing or non-regular path and when the read itself fails (ioOk)
ReadFileOk(path, ioOk) == path \in DOMAIN fs /\ fs[path].kind = "regular" /\ ioOk

\* faulty variant: the index is built but never stored in the map
addOrGetFileNoStore(cache, path, ioOk) ==
    IF path \in DOMAIN cache
    THEN [panicked |-> FALSE, cache |-> cache, f |-> cache[path],
          hit |-> TRUE, read |-> FALSE, built |-> FALSE]
    ELSE IF ~ReadFileOk(path, ioOk)
    THEN [panicked |-> TRUE, cache |-> cache, f |-> <<>>,
          hit |-> FALSE, read |-> TRUE, built |-> FALSE]
    ELSE [panicked |-> FALSE, cache |-> cache, f |-> BuildIndex(fs[path].content),
          hit |-> FALSE, read |-> TRUE, built |-> TRUE]

\* addOrGetFile: a cached index is returned without reading; a failed read panics
\* before anything is cached
addOrGetFile(cache, path, ioOk) ==
    IF path \in DOMAIN cache
    THEN [panicked |-> FALSE, cache |-> cache, f |-> cache[path],
          hit |-> TRUE, read |-> FALSE, built |-> FALSE]
    ELSE IF ~ReadFileOk(path, ioOk)
    THEN [panicked |-> TRUE, cache |-> cache, f |-> <<>>,
          hit |-> FALSE, read |-> TRUE, built |-> FALSE]
    ELSE LET f == BuildIndex(fs[path].content)
         IN [panicked |-> FALSE,
             cache |-> [p \in DOMAIN cache \cup {path} |-> IF p = path THEN f ELSE cache[p]],
             f |-> f, hit |-> FALSE, read |-> TRUE, built |-> TRUE]

\* the loop over offsets in fix: a zero offset is skipped, any other is looked up and
\* overwritten; a lookup outside the index panics and leaves the loop
RECURSIVE fixFrom(_, _, _, _)
fixFrom(f, offs, i, looked) ==
    IF i > Len(offs) THEN [offs |-> offs, panicked |-> FALSE, looked |-> looked]
    ELSE IF offs[i] = 0 THEN fixFrom(f, offs, i + 1, looked)
    ELSE IF InIndex(f, offs[i])
    THEN fixFrom(f, [offs EXCEPT ![i] = ByteOffsetOfRune(f, offs[i])], i + 1,
                 Append(looked, offs[i]))
    ELSE [offs |-> offs, panicked |-> TRUE, looked |-> Append(looked, offs[i])]

\* faulty variant: a zero offset ends the loop (return for continue)
RECURSIVE fixFromStopAtZero(_, _, _, _)
fixFromStopAtZero(f, offs, i, looked) ==
    IF i > Len(offs) \/ offs[i] = 0
    THEN [offs |-> offs, panicked |-> FALSE, looked |-> looked]
    ELSE IF InIndex(f, offs[i])
    THEN fixFromStopAtZero(f, [offs EXCEPT ![i] = ByteOffsetOfRune(f, offs[i])], i + 1,
                           Append(looked, offs[i]))
    ELSE [offs |-> offs, panicked |-> TRUE, looked |-> Append(looked, offs[i])]

fixOffsetsStopAtZero(f, offs) == fixFromStopAtZero(f, offs, 1, <<>>)

\* faulty variant: a failed lookup restores the offsets already rewritten
fixOffsetsRollback(f, offs) ==
    LET l == fixFrom(f, offs, 1, <<>>)
    IN IF l.panicked THEN [l EXCEPT !.offs = offs] ELSE l

\* faulty variant: the byte offset is looked up and not written back
fixOffsetsNoStore(f, offs) == [fixFrom(f, offs, 1, <<>>) EXCEPT !.offs = offs]

\* faulty variant: only the first offset is fixed
fixOffsetsFirstOnly(f, offs) ==
    LET l == fixFrom(f, SubSeq(offs, 1, 1), 1, <<>>)
    IN [l EXCEPT !.offs = l.offs \o SubSeq(offs, 2, Len(offs))]

fixOffsets(f, offs) == fixFrom(f, offs, 1, <<>>)

\* faulty variant: no deferred recover, the panic leaves fix
RecoverNot(panicked, path) == [escaped |-> panicked, logged |-> <<>>]

\* the deferred function of fix: a panic is recovered and logged with the file's name
Recover(panicked, path) ==
    [escaped |-> FALSE, logged |-> IF panicked THEN <<path>> ELSE <<>>]

\* faulty variant: no os.Stat check before the file is read
SkipsNoStat(name) == IF name = "" THEN "noname" ELSE "no"

\* what fix does before addOrGetFile: "" and a path that is missing or not a
\* regular file return at once
Skips(name) ==
    IF name = "" THEN "noname"
    ELSE IF ~StatRegular(Join(Dir, name)) THEN "nofile"
    ELSE "no"

\* fix(filename, offsets...): the whole closure, its deferred recover included
fix(name, offs, cache, ioOk) ==
    LET path == Join(Dir, name)
        skip == Skips(name)
        g == addOrGetFile(cache, path, ioOk)
        l == fixOffsets(g.f, offs)
        base == [offs |-> offs, cache |-> cache, looked |-> <<>>, hit |-> FALSE,
                 read |-> FALSE, built |-> FALSE, logged |-> <<>>, escaped |-> FALSE,
                 outcome |-> skip]
    IN IF skip # "no" THEN base
       ELSE IF g.panicked
       THEN LET d == Recover(TRUE, path)
            IN [base EXCEPT !.read = g.read, !.logged = d.logged, !.escaped = d.escaped,
                            !.outcome = "readfail"]
       ELSE LET d == Recover(l.panicked, path)
            IN [offs |-> l.offs, cache |-> g.cache, looked |-> l.looked, hit |-> g.hit,
                read |-> g.read, built |-> g.built, logged |-> d.logged,
                escaped |-> d.escaped,
                outcome |-> IF l.panicked THEN "lookupfail" ELSE "done"]

----------------------------------------------------------------------------
(* sortedOutput: sort.Sort under the comparators of package graph *)

FileRank(name) == CASE name = "" -> 0 [] name = "a.go" -> 1 [] name = "b.txt" -> 2

\* the comparator the spec documents: by file path, then by start offset
SpanLess(a, b) ==
    \/ FileRank(a.file) < FileRank(b.file)
    \/ a.file = b.file /\ a.start < b.start

IsSorted(s) == \A i \in 1..Len(s), j \in 1..Len(s) : i < j => ~SpanLess(s[j], s[i])

Perms(n) == {p \in [1..n -> 1..n] : \A i \in 1..n, j \in 1..n : p[i] = p[j] => i = j}

\* sort.Sort is not stable: any order of the same elements that the comparator
\* accepts as ascending is a result
SortResults(s) == {t \in {[i \in 1..Len(s) |-> s[p[i]]] : p \in Perms(Len(s))} : IsSorted(t)}

sortedOutput(o) ==
    {Batch(d, r, c) : d \in SortResults(o.Defs), r \in SortResults(o.Refs),
                      c \in SortResults(o.Docs)}

IsSortedBatch(o) == IsSorted(o.Defs) /\ IsSorted(o.Refs) /\ IsSorted(o.Docs)

\* the spans of a sequence as a bag, to compare batches up to order
BagOf(s) == [x \in {s[i] : i \in 1..Len(s)} |-> Cardinality({i \in 1..Len(s) : s[i] = x})]

SameSpans(o1, o2) ==
    /\ BagOf(o1.Defs) = BagOf(o2.Defs)
    /\ BagOf(o1.Refs) = BagOf(o2.Refs)
    /\ BagOf(o1.Docs) = BagOf(o2.Docs)

----------------------------------------------------------------------------
(* Graph *)

\* faulty variant: the condition inverted
ShouldTranslateGo(t) == t = "GoPackage"

\* u.Type != "GoPackage": the grapher is known to output character offsets
ShouldTranslate(t) == t # "GoPackage"

Init ==
    /\ uType \in UnitTypes
    /\ fs \in FileSystems
    /\ pc = "Graph"
    /\ raw = EmptyBatch
    /\ out = EmptyBatch
    /\ cur = 0
    /\ files = NoFiles
    /\ log = <<>>
    /\ trace = <<>>
    /\ stages = <<>>
    /\ err = ""
    /\ calls = <<>>
    /\ sorts = 0

\* Graphers[ptrTo(u)] has no entry
GraphNotRegistered ==
    /\ pc = "Graph"
    /\ pc' = "returned"
    /\ err' = "no grapher registered"
    /\ UNCHANGED <<uType, fs, raw, out, cur, files, log, trace, stages, calls, sorts>>

\* g.Graph(dir, u, c) fails
GraphAnalyzerError ==
    /\ pc = "Graph"
    /\ pc' = "returned"
    /\ err' = "grapher failed"
    /\ stages' = Append(stages, "analyzer")
    /\ UNCHANGED <<uType, fs, raw, out, cur, files, log, trace, calls, sorts>>

\* g.Graph(dir, u, c) returns a batch; Graph goes on to translate or to sort
GraphAnalyze ==
    /\ pc = "Graph"
    /\ \E o \in BatchesOver(PlainSpans, PlainSpans, PlainSpans) :
          /\ raw' = o
          /\ out' = o
    /\ IF ShouldTranslate(uType)
       THEN pc' = "translate" /\ stages' = <<"analyzer", "translate">>
       ELSE pc' = "sort" /\ stages' = <<"analyzer">>
    /\ UNCHANGED <<uType, fs, cur, files, log, trace, err, calls, sorts>>

\* one iteration of the loops over Defs, Refs, Docs: fix on the next span
FixNext ==
    /\ pc = "translate"
    /\ cur < NumSpans(out)
    /\ \E ioOk \in BOOLEAN :
          LET sp == NthSpan(out, cur + 1)
              r == fix(sp.file, <<sp.start, sp.end>>, files, ioOk)
          IN /\ out' = WithOffsets(out, cur + 1, r.offs)
             /\ files' = r.cache
             /\ log' = log \o r.logged
             /\ trace' = Append(trace,
                   [kind |-> NthKind(out, cur + 1), file |-> sp.file,
                    s0 |-> sp.start, e0 |-> sp.end, s1 |-> r.offs[1], e1 |-> r.offs[2],
                    outcome |-> r.outcome, looked |-> r.looked, hit |-> r.hit,
                    read |-> r.read, built |-> r.built, logged |-> r.logged # <<>>])
             /\ pc' = IF r.escaped THEN "panicked" ELSE "translate"
    /\ cur' = cur + 1
    /\ UNCHANGED <<uType, fs, raw, stages, err, calls, sorts>>

\* ensureOffsetsAreByteOffsets returns; its file set and map go out of scope
TranslateReturn ==
    /\ pc = "translate"
    /\ cur = NumSpans(out)
    /\ pc' = "sort"
    /\ files' = NoFiles
    /\ UNCHANGED <<uType, fs, raw, out, cur, log, trace, stages, err, calls, sorts>>

\* return sortedOutput(o), nil
GraphSortReturn ==
    /\ pc = "sort"
    /\ out' \in sortedOutput(out)
    /\ stages' = Append(stages, "sort")
    /\ pc' = "returned"
    /\ err' = ""
    /\ UNCHANGED <<uType, fs, raw, cur, files, log, trace, calls, sorts>>

Next ==
    \/ GraphNotRegistered
    \/ GraphAnalyzerError
    \/ GraphAnalyze
    \/ FixNext
    \/ TranslateReturn
    \/ GraphSortReturn

Spec == Init /\ [][Next]_vars

----------------------------------------------------------------------------
(* NormalizeData *)

\* repo.MakeURI, the canonical repository-URI form: a clone URL loses its scheme
\* and its ".git", a canonical URI is a fixed point
MakeURI(cloneURL) ==
    CASE cloneURL = "git://github.com/foo/bar.git" -> "github.com/foo/bar"
      [] OTHER -> cloneURL

\* repo.MakeURI has one result and no error result: it can fail only by panicking
MakeURIFails(cloneURL) == cloneURL = "::"

\* faulty variant: no guard, MakeURI is called for every reference
NeedsURIAlways(ref) == TRUE

\* the guard of the loop over o.Refs: MakeURI is called for a non-empty DefRepo only
NeedsURI(ref) == ref.repo # ""

\* the loop over o.Refs; the refs are pointers, so what was rewritten before a panic stays
RECURSIVE canonFrom(_, _, _)
canonFrom(refs, i, called) ==
    IF i > Len(refs) THEN [refs |-> refs, panicked |-> FALSE, calls |-> called]
    ELSE IF ~NeedsURI(refs[i]) THEN canonFrom(refs, i + 1, called)
    ELSE IF MakeURIFails(refs[i].repo)
    THEN [refs |-> refs, panicked |-> TRUE, calls |-> Append(called, refs[i].repo)]
    ELSE canonFrom([refs EXCEPT ![i].repo = MakeURI(refs[i].repo)], i + 1,
                   Append(called, refs[i].repo))

InitNormalize ==
    /\ uType = "GoPackage"
    /\ fs \in {[p \in {Join(Dir, "a.go"), Join(Dir, "b.txt")} |-> Missing]}
    /\ pc = "NormalizeData"
    /\ out \in BatchesOver(PlainSpans, RefSpans, PlainSpans)
    /\ raw = out
    /\ cur = 0
    /\ files = NoFiles
    /\ log = <<>>
    /\ trace = <<>>
    /\ stages = <<>>
    /\ err = ""
    /\ calls = <<>>
    /\ sorts = 0

\* NormalizeData(o): canonicalize the refs, sortedOutput(o), return nil
NormalizeData ==
    /\ pc = "NormalizeData"
    /\ LET c == canonFrom(out.Refs, 1, <<>>)
       IN /\ calls' = c.calls
          /\ IF c.panicked
             THEN /\ out' = [out EXCEPT !.Refs = c.refs]
                  /\ pc' = "panicked"
                  /\ UNCHANGED <<err, stages>>
             ELSE /\ out' \in sortedOutput([out EXCEPT !.Refs = c.refs])
                  /\ pc' = "normalized"
                  /\ stages' = <<"canonicalize", "sort">>
                  /\ err' = ""
    /\ UNCHANGED <<uType, fs, raw, cur, files, log, trace, sorts>>

NextNormalize == NormalizeData

SpecNormalize == InitNormalize /\ [][NextNormalize]_vars

----------------------------------------------------------------------------
(* sortedOutput as a function of its argument, applied repeatedly *)

InitSort ==
    /\ uType = "GoPackage"
    /\ fs \in {[p \in {Join(Dir, "a.go"), Join(Dir, "b.txt")} |-> Missing]}
    /\ pc = "sortedOutput"
    /\ out \in BatchesOver(PlainSpans, PlainSpans, PlainSpans)
    /\ raw = out
    /\ cur = 0
    /\ files = NoFiles
    /\ log = <<>>
    /\ trace = <<>>
    /\ stages = <<>>
    /\ err = ""
    /\ calls = <<>>
    /\ sorts = 0

\* o = sortedOutput(o); raw keeps the argument of this application
ApplySortedOutput ==
    /\ pc = "sortedOutput"
    /\ sorts < MaxSorts
    /\ raw' = out
    /\ out' \in sortedOutput(out)
    /\ sorts' = sorts + 1
    /\ UNCHANGED <<uType, fs, pc, cur, files, log, trace, stages, err, calls>>

NextSort == ApplySortedOutput

SpecSort == InitSort /\ [][NextSort]_vars

----------------------------------------------------------------------------
(* Properties of ensureOffsetsAreByteOffsets, stated on the history of fix calls *)

Entries == 1..Len(trace)

PathOf(t) == Join(Dir, t.file)

KindOfFile(name) == IF name = "" THEN "noname" ELSE fs[Join(Dir, name)].kind

ContentOf(name) == fs[Join(Dir, name)].content

\* number of codepoints of the file
RuneCount(name) == Len(ContentOf(name))

\* byte offset at which codepoint k of the file begins
ByteOffset(name, k) == SumWidths(ContentOf(name), k)

Failed(t) == t.outcome \in {"readfail", "lookupfail"}

\* fix got as far as addOrGetFile
Reached(t) == t.outcome \in {"readfail", "lookupfail", "done"}

\* addOrGetFile returned an index
Obtained(t) == t.outcome \in {"lookupfail", "done"}

RECURSIVE FailedPaths(_)
FailedPaths(tr) ==
    IF tr = <<>> THEN <<>>
    ELSE (IF Failed(Head(tr)) THEN <<PathOf(Head(tr))>> ELSE <<>>) \o FailedPaths(Tail(tr))

Translating == "translate" \in {stages[i] : i \in 1..Len(stages)}

\* C1: a failure of one fix call (file read, out-of-range lookup) never aborts the
\* batch: it is logged as a warning naming the file, every span of Defs, Refs and
\* Docs is still passed to fix, and Graph returns the sorted output with a nil error.
C1_FailureNeverAborts ==
    /\ pc # "panicked"
    /\ log = FailedPaths(trace)
    /\ \A i \in Entries : Failed(trace[i]) <=> trace[i].logged
    /\ (Translating /\ pc \in {"sort", "returned"}) =>
          /\ Len(trace) = NumSpans(raw)
          /\ \A i \in Entries :
                /\ trace[i].kind = NthKind(raw, i)
                /\ trace[i].file = NthSpan(raw, i).file
                /\ trace[i].s0 = NthSpan(raw, i).start
                /\ trace[i].e0 = NthSpan(raw, i).end
    /\ (Translating /\ pc = "returned") =>
          /\ err = ""
          /\ IsSortedBatch(out)
          /\ NumSpans(out) = NumSpans(raw)

\* a failed fix call, a later span translated, and the sorted batch returned
C1_Witness ==
    /\ pc = "returned"
    /\ err = ""
    /\ \E i \in Entries, j \in Entries :
          /\ i < j
          /\ Failed(trace[i])
          /\ trace[j].outcome = "done"
          /\ trace[j].e1 > trace[j].e0

\* C2 as claimed: per file at most one read, and every later span of the file that
\* gets to addOrGetFile reuses the cached index, whatever happened to the earlier one.
C2_ReadOnceAlwaysReused ==
    /\ \A name \in FileNames :
          Cardinality({i \in Entries : trace[i].file = name /\ trace[i].read}) <= 1
    /\ \A i \in Entries, j \in Entries :
          (i < j /\ trace[i].file = trace[j].file /\ Reached(trace[i]) /\ Reached(trace[j]))
             => trace[j].hit

\* C2 (amended): per batch a file's index is built at most once; once it is built every
\* later span of that file reuses it without reading the file again, also after a span
\* of that file failed in a lookup; a failed read caches nothing, so the next span of
\* that file reads the file again.
C2_BuiltOnceThenReused ==
    /\ \A name \in FileNames :
          Cardinality({i \in Entries : trace[i].file = name /\ trace[i].built}) <= 1
    /\ \A i \in Entries, j \in Entries :
          (i < j /\ trace[i].file = trace[j].file /\ Obtained(trace[i]) /\ Reached(trace[j]))
             => (trace[j].hit /\ ~trace[j].read /\ ~trace[j].built)
    /\ \A j \in Entries :
          (Reached(trace[j]) /\
           ~\E i \in Entries : i < j /\ trace[i].file = trace[j].file /\ Obtained(trace[i]))
             => (trace[j].read /\ ~trace[j].hit)

\* a span that failed in its lookup, and a later span of the same file served from the cache
C2_Witness ==
    \E i \in Entries, j \in Entries :
        /\ i < j
        /\ trace[i].file = trace[j].file
        /\ trace[i].outcome = "lookupfail"
        /\ trace[j].hit
        /\ trace[j].outcome = "done"
        /\ trace[j].e1 > trace[j].e0

\* C3: an offset that is 0 is never looked up and is still 0 afterwards, for every span
\* kind and file content; the zero does not end the fix-up: the other, non-zero offset
\* of the span is looked up, and rewritten when it is inside the index.
C3_ZeroLeftAlone ==
    \A i \in Entries :
        LET t == trace[i]
        IN /\ t.s0 = 0 => t.s1 = 0
           /\ t.e0 = 0 => t.e1 = 0
           /\ \A k \in 1..Len(t.looked) : t.looked[k] # 0
           /\ (Obtained(t) /\ t.s0 = 0 /\ t.e0 # 0) =>
                 /\ t.looked = <<t.e0>>
                 /\ t.e0 <= RuneCount(t.file) => t.e1 = ByteOffset(t.file, t.e0)
           /\ (Obtained(t) /\ t.e0 = 0 /\ t.s0 # 0) =>
                 /\ t.looked = <<t.s0>>
                 /\ t.s0 <= RuneCount(t.file) => t.s1 = ByteOffset(t.file, t.s0)

\* a span with start 0 whose end was moved to a larger byte offset
C3_Witness ==
    \E i \in Entries :
        /\ trace[i].s0 = 0
        /\ trace[i].s1 = 0
        /\ trace[i].e0 # 0
        /\ trace[i].e1 > trace[i].e0

\* C4 as claimed: a span whose file does not exist keeps its offsets and a warning is logged.
C4_MissingFileLogged ==
    \A i \in Entries :
        KindOfFile(trace[i].file) = "missing" =>
            /\ trace[i].s1 = trace[i].s0
            /\ trace[i].e1 = trace[i].e0
            /\ trace[i].logged

\* C4 (amended): a span whose file does not exist keeps its offsets and is skipped
\* silently: the file is not read, nothing is logged, and no error or panic results.
C4_MissingFileSilent ==
    /\ \A i \in Entries :
          KindOfFile(trace[i].file) = "missing" =>
              /\ trace[i].s1 = trace[i].s0
              /\ trace[i].e1 = trace[i].e0
              /\ trace[i].outcome = "nofile"
              /\ ~trace[i].logged
              /\ ~trace[i].read
    /\ (\A i \in Entries : KindOfFile(trace[i].file) = "missing") => log = <<>>
    /\ pc # "panicked"
    /\ (Translating /\ pc = "returned") => err = ""

\* a span with non-zero offsets of a missing file, after Graph has returned
C4_Witness ==
    /\ pc = "returned"
    /\ \E i \in Entries :
          /\ KindOfFile(trace[i].file) = "missing"
          /\ trace[i].s0 # 0
          /\ trace[i].e0 # 0

\* C5: when a fix-up fails part-way, the offsets rewritten before the failure keep their
\* byte values, and the offset that failed and those after it keep their original values.
C5_NoRollback ==
    \A i \in Entries :
        LET t == trace[i]
            n == RuneCount(t.file)
        IN t.outcome = "lookupfail" =>
              IF t.s0 # 0 /\ t.s0 > n
              THEN t.s1 = t.s0 /\ t.e1 = t.e0
              ELSE /\ t.s1 = (IF t.s0 = 0 THEN 0 ELSE ByteOffset(t.file, t.s0))
                   /\ t.e0 > n
                   /\ t.e1 = t.e0

\* a fix-up that moved the start and then failed on the end
C5_Witness ==
    \E i \in Entries :
        /\ trace[i].outcome = "lookupfail"
        /\ trace[i].s1 > trace[i].s0
        /\ trace[i].e1 = trace[i].e0

\* what C6 says of one offset: before k, after b, in a file of content c
RewrittenToByteOffset(c, k, b) ==
    /\ b = SumWidths(c, k)
    /\ b >= k
    /\ IsASCII(c) => b = k
    /\ k = Len(c) => b = ByteLen(c)

\* C6 as claimed: in every existing regular file every non-zero offset not beyond the
\* file's codepoint count is rewritten to the byte offset of that codepoint.
C6_EveryInRangeOffsetRewritten ==
    \A i \in Entries :
        LET t == trace[i]
        IN KindOfFile(t.file) = "regular" =>
              /\ (t.s0 # 0 /\ t.s0 <= RuneCount(t.file)) =>
                    RewrittenToByteOffset(ContentOf(t.file), t.s0, t.s1)
              /\ (t.e0 # 0 /\ t.e0 <= RuneCount(t.file)) =>
                    RewrittenToByteOffset(ContentOf(t.file), t.e0, t.e1)

\* C6 (amended): in every existing regular file that could be read, every non-zero offset
\* not beyond the file's codepoint count that the fix-up gets to (no earlier offset of the
\* span was out of range) is rewritten to the byte offset of that codepoint: at least k,
\* k for ASCII content, the byte length for k the codepoint count.
C6_ReachedInRangeOffsetRewritten ==
    \A i \in Entries :
        LET t == trace[i]
        IN (KindOfFile(t.file) = "regular" /\ t.outcome # "readfail") =>
              /\ Obtained(t)
              /\ (t.s0 # 0 /\ t.s0 <= RuneCount(t.file)) =>
                    RewrittenToByteOffset(ContentOf(t.file), t.s0, t.s1)
              /\ (t.e0 # 0 /\ t.e0 <= RuneCount(t.file) /\ t.s0 <= RuneCount(t.file)) =>
                    RewrittenToByteOffset(ContentOf(t.file), t.e0, t.e1)

\* the full length in codepoints of a file with a multi-byte character, rewritten to
\* the file's byte length
C6_Witness ==
    \E i \in Entries :
        /\ KindOfFile(trace[i].file) = "regular"
        /\ trace[i].e0 = RuneCount(trace[i].file)
        /\ trace[i].e1 = ByteLen(ContentOf(trace[i].file))
        /\ trace[i].e1 > trace[i].e0
        /\ trace[i].s0 # 0
        /\ trace[i].s1 = trace[i].s0

\* C10 as claimed: start <= end before the fix-up implies start <= end after it.
C10_OrderPreserved ==
    \A i \in Entries : trace[i].s0 <= trace[i].e0 => trace[i].s1 <= trace[i].e1

\* C10 (amended): start <= end before the fix-up implies start <= end after it for every
\* outcome but one: a fix-up that rewrote the start and then failed on the end, where the
\* start is a byte offset and the end still a codepoint offset.
C10_OrderPreservedUnlessPartial ==
    \A i \in Entries :
        LET t == trace[i]
        IN (t.s0 <= t.e0 /\ ~(t.outcome = "lookupfail" /\ t.looked = <<t.s0, t.e0>>))
              => t.s1 <= t.e1

\* a span both of whose offsets were moved, still in order
C10_Witness ==
    \E i \in Entries :
        /\ trace[i].outcome = "done"
        /\ trace[i].s0 # 0
        /\ trace[i].s0 < trace[i].e0
        /\ trace[i].s1 > trace[i].s0
        /\ trace[i].s1 < trace[i].e1

----------------------------------------------------------------------------
(* Properties of Graph, NormalizeData and sortedOutput *)

SpansOf(o) ==
    {o.Defs[i] : i \in 1..Len(o.Defs)} \cup {o.Refs[i] : i \in 1..Len(o.Refs)}
        \cup {o.Docs[i] : i \in 1..Len(o.Docs)}

\* C7: the translator runs if and only if u.Type is not "GoPackage"; for "GoPackage" it
\* is skipped with every offset untouched. A successful run is analyzer, then
\* translation (when it runs), then sorting, and the batch returned is the sorted one.
C7_TranslateIffNotGoPackage ==
    /\ (stages # <<>> /\ pc # "returned") => (Translating <=> uType # "GoPackage")
    /\ uType = "GoPackage" =>
          /\ trace = <<>>
          /\ log = <<>>
          /\ SameSpans(out, raw)
    /\ (uType # "GoPackage" /\ pc = "sort") => Len(trace) = NumSpans(raw)
    /\ (pc = "returned" /\ err = "") =>
          /\ stages = IF uType = "GoPackage" THEN <<"analyzer", "sort">>
                      ELSE <<"analyzer", "translate", "sort">>
          /\ IsSortedBatch(out)
          /\ NumSpans(out) = NumSpans(raw)
    /\ (pc = "returned" /\ err # "") => (out = EmptyBatch /\ ~Translating)

\* a "GoPackage" batch returned sorted, holding an offset the translator would have moved
C7_Witness ==
    /\ uType = "GoPackage"
    /\ pc = "returned"
    /\ err = ""
    /\ \E sp \in SpansOf(out) :
          /\ KindOfFile(sp.file) = "regular"
          /\ sp.start # 0
          /\ sp.start <= RuneCount(sp.file)
          /\ ByteOffset(sp.file, sp.start) > sp.start
    /\ \E i \in 1..Len(raw.Defs), j \in 1..Len(raw.Defs) : i < j /\ SpanLess(raw.Defs[j], raw.Defs[i])

\* the DefRepo values NormalizeData hands to MakeURI, when no call fails
RECURSIVE NonEmptyRepos(_)
NonEmptyRepos(refs) ==
    IF refs = <<>> THEN <<>>
    ELSE (IF Head(refs).repo # "" THEN <<Head(refs).repo>> ELSE <<>>)
             \o NonEmptyRepos(Tail(refs))

CanonFailed == \E i \in 1..Len(raw.Refs) : raw.Refs[i].repo = "::"

Canonical(ref) ==
    [ref EXCEPT !.repo = IF @ = "git://github.com/foo/bar.git" THEN "github.com/foo/bar" ELSE @]

\* C8 as claimed: canonicalization is invoked once per reference, and NormalizeData
\* returns an error if and only if canonicalization fails.
C8_ErrorIffCanonicalizationFails ==
    pc \in {"normalized", "panicked"} =>
        /\ Len(calls) = Len(raw.Refs)
        /\ (err # "") <=> CanonFailed

\* C8 (amended): NormalizeData canonicalizes the DefRepo of every reference whose DefRepo
\* is not empty, once each and before the sort (an empty DefRepo is left alone, with no
\* call); whenever it returns it returns nil, after sorting; it never returns an error: a
\* failing canonicalization panics out of NormalizeData.
C8_NilAfterCanonicalizeAndSort ==
    /\ err = ""
    /\ pc = "panicked" <=> (pc # "NormalizeData" /\ CanonFailed)
    /\ pc = "normalized" =>
          /\ calls = NonEmptyRepos(raw.Refs)
          /\ stages = <<"canonicalize", "sort">>
          /\ IsSortedBatch(out)
          /\ BagOf(out.Refs) = BagOf([i \in 1..Len(raw.Refs) |-> Canonical(raw.Refs[i])])
          /\ BagOf(out.Defs) = BagOf(raw.Defs)
          /\ BagOf(out.Docs) = BagOf(raw.Docs)
    /\ pc = "panicked" =>
          /\ calls # <<>>
          /\ calls[Len(calls)] = "::"
          /\ \A k \in 1..(Len(calls) - 1) : calls[k] \notin {"", "::"}

\* a clone URL canonicalized next to a reference with no DefRepo, returned sorted
C8_Witness ==
    /\ pc = "normalized"
    /\ \E i \in 1..Len(raw.Refs) : raw.Refs[i].repo = ""
    /\ \E i \in 1..Len(raw.Refs) : raw.Refs[i].repo = "git://github.com/foo/bar.git"
    /\ \E i \in 1..Len(out.Refs) : out.Refs[i].repo = "github.com/foo/bar"
    /\ out.Refs # raw.Refs

\* C9: sortedOutput applied to a batch that sortedOutput returned leaves the order of
\* Defs, Refs and Docs as it was, also when spans compare as equal.
C9_SortIdempotent == sorts >= 2 => out = raw

====
